---- MODULE Spec2Model ----
(***************************************************************************)
(* A model of the task-management backend (src/fastapi): the relational    *)
(* store's rows, and one action per HTTP handler of routers/projects.py,   *)
(* routers/tasks.py, routers/tags.py and routers/auth.py.                   *)
(*                                                                         *)
(* A handler runs as one atomic step ending in its db.commit(), except     *)
(* where the handler itself commits twice (create_project) or where a      *)
(* claim is about two requests racing between a handler's existence check  *)
(* and its commit (register, create_tag): those are two steps, with the    *)
(* request held in a pending set in between.                               *)
(*                                                                         *)
(* `last` records the response the last step sent: the handler, the        *)
(* authenticated actor, the id in the path (of the new row for a create)   *)
(* and the HTTP status code; NoResponse after a step that sent none.       *)
(***************************************************************************)
EXTENDS Integers, Sequences, FiniteSets, TLC

\* ---------------------------------------------------------------- bounds
MaxProjects == 1
MaxTasks == 1
MaxTags == 2
MaxPending == 1
MaxPendingTags == 2
MaxRegistering == 2
MaxUpdating == 1
MaxSubtasks == 1
MaxOtherProjects == 1
MaxComments == 1
MaxAttachments == 1
MaxNotifications == 3

\* ------------------------------------------------------- values and inputs
\* Python's None in an Optional[int] column or field; ids start at 1, and the
\* handlers' truth tests (`if task_data.assignee_id:`) treat it as false.
NULL == 0
\* None in an Optional[str] field.
NoneStr == "None"

\* The registered users of the project/task/tag specifications (ids of rows of
\* the users table; get_current_user resolves the bearer token to one of them).
Users == {1, 2, 3}
\* The users who create projects (user ids are interchangeable).
Creators == {1}
\* The user ids add_project_member requests name: the registered users and an
\* id of no row of the users table.
TargetUsers == Users \cup {4}
\* The users requests name as assignee (again any user would do).
Assignees == {2, 3}

Roles == {"owner", "admin", "member", "viewer"}
ProjectNames == {"p", "q"}
StatusInputs == {"todo", "in_progress", "done"}
TagNames == {"x", "y"}
LoginIds == {"la", "lb"}
Emails == {"ea", "eb"}
\* The values datetime.now() returns (NULL is no time).
Times == {1, 2}

\* HTTP status codes of the responses.
OK == 200
BAD_REQUEST == 400
FORBIDDEN == 403
NOT_FOUND == 404
SERVER_ERROR == 500
UNPROCESSABLE == 422
TOO_LARGE == 413

VARIABLES
    users,          \* rows of User: [id, login_id, email]
    projects,       \* sequence of Project rows, the id is the index
    members,        \* set of ProjectMember rows: [project_id, user_id, role]
    tasks,          \* sequence of Task rows, the id is the index
    tags,           \* set of Tag rows: [id, name, project_id, created_by]
    nextTagId,      \* the tags table's serial
    pendingProjects,\* create_project requests between their two commits
    pendingTags,    \* create_tag requests between existence check and commit
    registering,    \* register requests between existence check and commit
    updating,       \* update_current_user requests between email check and commit
    comments,       \* set of TaskComment rows: [id, task_id, user_id, content, is_edited]
    nextCommentId,  \* the task_comments table's serial
    attachments,    \* set of TaskAttachment rows: [id, task_id, user_id, filename, file_size]
    nextAttachmentId, \* the task_attachments table's serial
    taskTags,       \* set of TaskTag rows: [task_id, tag_id]
    blobs,          \* the names of the files under uploads/attachments
    notifications,  \* sequence of Notification rows: [user_id, is_read], the id is the index
    last            \* the last response: [op, actor, id, code, detail]

vars == <<users, projects, members, tasks, tags, nextTagId,
          pendingProjects, pendingTags, registering, updating, comments, nextCommentId,
          attachments, nextAttachmentId, blobs, taskTags, notifications, last>>

\* The tables and files of the comment and attachment handlers.
discussion == <<comments, nextCommentId, attachments, nextAttachmentId, blobs>>

\* A response with a detail the claims read (the count in delete_tag's message).
DetailedResponse(op, actor, id, code, detail) ==
    [op |-> op, actor |-> actor, id |-> id, code |-> code, detail |-> detail]

Response(op, actor, id, code) == DetailedResponse(op, actor, id, code, NULL)

\* No response has been sent by the last step (a request is still running).
NoResponse == Response("none", NULL, NULL, NULL)

\* ------------------------------------------------------------ store queries
ProjectIds == 1..Len(projects)
TaskIds == 1..Len(tasks)

\* db.query(ProjectMember).filter(project_id == p, user_id == u): the rows.
Membership(p, u) == {m \in members : m.project_id = p /\ m.user_id = u}

IsMember(p, u) == Membership(p, u) # {}

\* membership.role of the row .first() returns (the pair is unique in the store).
RoleOf(p, u) == (CHOOSE m \in Membership(p, u) : TRUE).role

\* The query of update_project and add_project_member: a row of the actor with
\* role in ["owner", "admin"].
HasAdminRights(p, u) == \E m \in Membership(p, u) : m.role \in {"owner", "admin"}

\* ---------------------------------------------------------------- projects
\* create_project up to its first db.commit(): the Project row is stored.
create_project_first_commit(a, name) ==
    /\ Cardinality(pendingProjects) < MaxPending
    /\ projects' = Append(projects, [name |-> name, owner_id |-> a, is_archived |-> FALSE])
    /\ pendingProjects' = pendingProjects \cup {[actor |-> a, project_id |-> Len(projects) + 1]}
    /\ last' = NoResponse
    /\ UNCHANGED <<users, members, tasks, tags, nextTagId, pendingTags, registering, updating,
                   discussion, taskTags, notifications>>

\* create_project from there to its second db.commit(): the owner membership.
create_project_second_commit(r) ==
    /\ r \in pendingProjects
    /\ members' = members \cup
          {[project_id |-> r.project_id, user_id |-> r.actor, role |-> "owner"]}
    /\ pendingProjects' = pendingProjects \ {r}
    /\ last' = Response("create_project", r.actor, r.project_id, OK)
    /\ UNCHANGED <<users, projects, tasks, tags, nextTagId, pendingTags, registering, updating,
                   discussion, taskTags, notifications>>

\* The second commit fails (the store or the connection is lost): the exception
\* is not handled, the first commit stays.
create_project_second_commit_fails(r) ==
    /\ r \in pendingProjects
    /\ pendingProjects' = pendingProjects \ {r}
    /\ last' = Response("create_project", r.actor, r.project_id, SERVER_ERROR)
    /\ UNCHANGED <<users, projects, members, tasks, tags, nextTagId, pendingTags, registering, updating,
                   discussion, taskTags, notifications>>

\* A get_project that forgets the membership check.
get_project_code_no_check(a, p) ==
    IF p \notin ProjectIds THEN NOT_FOUND ELSE OK

get_project_code(a, p) ==
    IF p \notin ProjectIds THEN NOT_FOUND
    ELSE IF ~IsMember(p, a) THEN FORBIDDEN
    ELSE OK

get_project(a, p) ==
    /\ last' = Response("get_project", a, p, get_project_code(a, p))
    /\ UNCHANGED <<users, projects, members, tasks, tags, nextTagId,
                   pendingProjects, pendingTags, registering, updating,
                   discussion, taskTags, notifications>>

\* The fields a ProjectUpdate body may set; `set` is dict(exclude_unset=True)'s keys.
ProjectUpdates ==
    {[set |-> S, name |-> n, is_archived |-> x] :
        S \in SUBSET {"name", "is_archived"},
        n \in ProjectNames, x \in BOOLEAN}

ApplyProjectUpdate(project, u) ==
    [project EXCEPT
        !.name = IF "name" \in u.set THEN u.name ELSE @,
        !.is_archived = IF "is_archived" \in u.set THEN u.is_archived ELSE @]

\* An update_project whose query drops the role filter.
update_project_code_any_member(a, p) ==
    IF p \notin ProjectIds THEN NOT_FOUND
    ELSE IF ~IsMember(p, a) THEN FORBIDDEN
    ELSE OK

update_project_code(a, p) ==
    IF p \notin ProjectIds THEN NOT_FOUND
    ELSE IF ~HasAdminRights(p, a) THEN FORBIDDEN
    ELSE OK

\* The projects table after update_project has answered the request.
ProjectsAfterUpdate(a, p, u) ==
    IF update_project_code(a, p) = OK
    THEN [projects EXCEPT ![p] = ApplyProjectUpdate(@, u)]
    ELSE projects

update_project(a, p, u) ==
    /\ last' = Response("update_project", a, p, update_project_code(a, p))
    /\ projects' = ProjectsAfterUpdate(a, p, u)
    /\ UNCHANGED <<users, members, tasks, tags, nextTagId,
                   pendingProjects, pendingTags, registering, updating,
                   discussion, taskTags, notifications>>

delete_project_code(a, p) ==
    IF p \notin ProjectIds THEN NOT_FOUND
    ELSE IF projects[p].owner_id # a THEN FORBIDDEN
    ELSE OK

delete_project(a, p) ==
    /\ last' = Response("delete_project", a, p, delete_project_code(a, p))
    /\ projects' = IF delete_project_code(a, p) = OK
                   THEN [projects EXCEPT ![p].is_archived = TRUE]
                   ELSE projects
    /\ UNCHANGED <<users, members, tasks, tags, nextTagId,
                   pendingProjects, pendingTags, registering, updating,
                   discussion, taskTags, notifications>>

\* An add_project_member without the query for an existing membership.
add_project_member_code_no_existing_check(a, p, u) ==
    IF p \notin ProjectIds THEN NOT_FOUND
    ELSE IF ~HasAdminRights(p, a) THEN FORBIDDEN
    ELSE IF \A row \in users : row.id # u THEN NOT_FOUND
    ELSE OK

add_project_member_code(a, p, u) ==
    IF p \notin ProjectIds THEN NOT_FOUND
    ELSE IF ~HasAdminRights(p, a) THEN FORBIDDEN
    ELSE IF IsMember(p, u) THEN BAD_REQUEST
    ELSE IF \A row \in users : row.id # u THEN NOT_FOUND
    ELSE OK

\* The project_members table after add_project_member has answered the request.
MembersAfterAdd(a, p, u, role) ==
    IF add_project_member_code(a, p, u) = OK
    THEN members \cup {[project_id |-> p, user_id |-> u, role |-> role]}
    ELSE members

add_project_member(a, p, u, role) ==
    /\ last' = Response("add_project_member", a, p, add_project_member_code(a, p, u))
    /\ members' = MembersAfterAdd(a, p, u, role)
    /\ UNCHANGED <<users, projects, tasks, tags, nextTagId,
                   pendingProjects, pendingTags, registering, updating,
                   discussion, taskTags, notifications>>

\* ------------------------------------------------------------------- tasks
\* check_project_access: raises 403 unless the user has a membership row.
check_project_access(project_id, user_id) == IsMember(project_id, user_id)

\* The fields of a TaskCreate body the handlers branch on or the claims read;
\* priority and the two dates are at their defaults (lines 95-98 of the schemas).
TaskCreates ==
    {[project_id |-> p, parent_task_id |-> q, assignee_id |-> u, status |-> s,
      priority |-> "medium", start_date |-> NULL, due_date |-> NULL] :
        p \in 1..MaxProjects, q \in {NULL} \cup (1..MaxTasks),
        u \in {NULL} \cup Assignees, s \in StatusInputs}

\* A create_task that asks only that the parent task exists.
create_task_code_any_project_parent(a, d) ==
    IF ~check_project_access(d.project_id, a) THEN FORBIDDEN
    ELSE IF d.parent_task_id # NULL /\ d.parent_task_id \notin TaskIds THEN BAD_REQUEST
    ELSE IF d.assignee_id # NULL /\ ~check_project_access(d.project_id, d.assignee_id)
         THEN FORBIDDEN
    ELSE OK

create_task_code(a, d) ==
    IF ~check_project_access(d.project_id, a) THEN FORBIDDEN
    ELSE IF /\ d.parent_task_id # NULL
            /\ \/ d.parent_task_id \notin TaskIds
               \/ tasks[d.parent_task_id].project_id # d.project_id
         THEN BAD_REQUEST
    ELSE IF d.assignee_id # NULL /\ ~check_project_access(d.project_id, d.assignee_id)
         THEN FORBIDDEN
    ELSE OK

NewTask(a, d) ==
    [project_id |-> d.project_id, parent_task_id |-> d.parent_task_id,
     assignee_id |-> d.assignee_id, creator_id |-> a,
     priority |-> d.priority, status |-> d.status,
     start_date |-> d.start_date, due_date |-> d.due_date,
     completed_at |-> NULL, is_archived |-> FALSE]

\* The tasks table after create_task has answered the request.
TasksAfterCreate(a, d) ==
    IF create_task_code(a, d) = OK THEN Append(tasks, NewTask(a, d)) ELSE tasks

create_task(a, d) ==
    /\ tasks' = TasksAfterCreate(a, d)
    /\ last' = Response("create_task", a,
                        IF create_task_code(a, d) = OK THEN Len(tasks) + 1 ELSE NULL,
                        create_task_code(a, d))
    /\ UNCHANGED <<users, projects, members, tags, nextTagId,
                   pendingProjects, pendingTags, registering, updating,
                   discussion, taskTags, notifications>>

\* A get_task that does not check the actor's access to the task's project.
get_task_code_no_access_check(a, t) ==
    IF t \notin TaskIds THEN NOT_FOUND ELSE OK

get_task_code(a, t) ==
    IF t \notin TaskIds THEN NOT_FOUND
    ELSE IF ~check_project_access(tasks[t].project_id, a) THEN FORBIDDEN
    ELSE OK

\* get_task reads the row and writes nothing.
get_task(a, t) ==
    /\ last' = Response("get_task", a, t, get_task_code(a, t))
    /\ UNCHANGED <<users, projects, members, tasks, tags, nextTagId,
                   pendingProjects, pendingTags, registering, updating,
                   discussion, taskTags, notifications>>

\* The query parameters of get_tasks the model's task rows can be filtered by
\* (NULL, NoneStr: the parameter is not given).
TaskFilters ==
    {[project_id |-> p, assignee_id |-> u, status |-> st, parent_task_id |-> q] :
        p \in {NULL} \cup (1..MaxProjects), u \in {NULL} \cup Assignees,
        st \in {NoneStr} \cup StatusInputs,
        q \in {NULL} \cup (1..(MaxTasks + MaxSubtasks))}

\* get_tasks: only an explicit project filter can be refused.
get_tasks_code(a, f) ==
    IF f.project_id # NULL /\ ~check_project_access(f.project_id, a) THEN FORBIDDEN
    ELSE OK

\* A get_tasks that, given no project filter, selects among all projects' tasks.
get_tasks_result_all_projects(a, f) ==
    IF get_tasks_code(a, f) # OK THEN {}
    ELSE {t \in TaskIds :
            /\ f.project_id # NULL => tasks[t].project_id = f.project_id
            /\ f.assignee_id # NULL => tasks[t].assignee_id = f.assignee_id
            /\ f.status # NoneStr => tasks[t].status = f.status
            /\ f.parent_task_id # NULL => tasks[t].parent_task_id = f.parent_task_id
            /\ tasks[t].is_archived = FALSE}

\* The ids of the rows get_tasks returns (lines 81-108).
get_tasks_result(a, f) ==
    IF get_tasks_code(a, f) # OK THEN {}
    ELSE {t \in TaskIds :
            /\ IF f.project_id # NULL
               THEN tasks[t].project_id = f.project_id
               ELSE \E m \in members :
                       m.user_id = a /\ m.project_id = tasks[t].project_id
            /\ f.assignee_id # NULL => tasks[t].assignee_id = f.assignee_id
            /\ f.status # NoneStr => tasks[t].status = f.status
            /\ f.parent_task_id # NULL => tasks[t].parent_task_id = f.parent_task_id
            /\ tasks[t].is_archived = FALSE}

get_tasks(a, f) ==
    /\ last' = Response("get_tasks", a, f.project_id, get_tasks_code(a, f))
    /\ UNCHANGED <<users, projects, members, tasks, tags, nextTagId,
                   pendingProjects, pendingTags, registering, updating,
                   discussion, taskTags, notifications>>

\* A get_subtasks that returns the archived subtasks too.
get_subtasks_result_with_archived(a, t) ==
    {c \in TaskIds : tasks[c].parent_task_id = t}

get_subtasks_code(a, t) ==
    IF t \notin TaskIds THEN NOT_FOUND
    ELSE IF ~check_project_access(tasks[t].project_id, a) THEN FORBIDDEN
    ELSE OK

\* The ids of the rows get_subtasks returns (lines 228-231).
get_subtasks_result(a, t) ==
    IF get_subtasks_code(a, t) # OK THEN {}
    ELSE {c \in TaskIds : tasks[c].parent_task_id = t /\ tasks[c].is_archived = FALSE}

get_subtasks(a, t) ==
    /\ last' = Response("get_subtasks", a, t, get_subtasks_code(a, t))
    /\ UNCHANGED <<users, projects, members, tasks, tags, nextTagId,
                   pendingProjects, pendingTags, registering, updating,
                   discussion, taskTags, notifications>>

\* The instants of the task dates and of the calendar window.
Dates == {1, 2, 3}

\* The comparisons of the calendar filter as SQL evaluates them in a WHERE
\* clause: a comparison with a NULL column is not true.
SqlGe(column, value) == column # NULL /\ column >= value

SqlLe(column, value) == column # NULL /\ column <= value

\* Lines 252-256: the date filter of get_calendar_tasks (& binds before |).
calendar_filter(task, start_date, end_date) ==
    \/ SqlGe(task.start_date, start_date) /\ SqlLe(task.start_date, end_date)
    \/ SqlGe(task.due_date, start_date) /\ SqlLe(task.due_date, end_date)
    \/ SqlLe(task.start_date, start_date) /\ SqlGe(task.due_date, end_date)

\* The body of get_calendar_tasks (lines 243-257): the ids of the rows it selects.
get_calendar_tasks_result(a, start_date, end_date) ==
    {t \in TaskIds :
        /\ \E m \in members : m.user_id = a /\ m.project_id = tasks[t].project_id
        /\ tasks[t].is_archived = FALSE
        /\ calendar_filter(tasks[t], start_date, end_date)}

\* GET /tasks/calendar: the router declares "/{task_id}" (line 112) before
\* "/calendar" (line 235) and takes the first route that matches the path, so
\* the request goes to get_task with task_id "calendar", which is no integer:
\* the framework answers 422 with no task in the body, and the body of
\* get_calendar_tasks never runs. The response's id is the window asked for,
\* its detail the set of the tasks returned.
get_calendar_tasks(a, start_date, end_date) ==
    /\ last' = DetailedResponse("get_calendar_tasks", a, <<start_date, end_date>>,
                                UNPROCESSABLE, {})
    /\ UNCHANGED <<users, projects, members, tasks, tags, nextTagId,
                   pendingProjects, pendingTags, registering, updating,
                   discussion, taskTags, notifications>>

\* The fields a TaskUpdate body may set; `set` is dict(exclude_unset=True)'s keys,
\* a field that is not set reads as its default, None (False for the flag, which
\* the handler reads through the dict only).
TaskUpdates ==
    {[set |-> S,
      status |-> IF "status" \in S THEN s ELSE NoneStr,
      assignee_id |-> IF "assignee_id" \in S THEN u ELSE NULL,
      is_archived |-> IF "is_archived" \in S THEN x ELSE FALSE] :
        S \in SUBSET {"status", "assignee_id", "is_archived"},
        s \in StatusInputs, u \in {NULL} \cup Assignees, x \in BOOLEAN}

\* An update_task that does not check the new assignee.
update_task_code_no_assignee_check(a, t, u) ==
    IF t \notin TaskIds THEN NOT_FOUND
    ELSE IF ~check_project_access(tasks[t].project_id, a) THEN FORBIDDEN
    ELSE OK

update_task_code(a, t, u) ==
    IF t \notin TaskIds THEN NOT_FOUND
    ELSE IF ~check_project_access(tasks[t].project_id, a) THEN FORBIDDEN
    ELSE IF u.assignee_id # NULL /\ ~check_project_access(tasks[t].project_id, u.assignee_id)
         THEN FORBIDDEN
    ELSE OK

\* Lines 155-159: the completion time follows the requested status.
CompletedAtAfter(task, u, now) ==
    IF u.status = "done" /\ task.status # "done" THEN now
    ELSE IF u.status # "done" /\ task.status = "done" THEN NULL
    ELSE task.completed_at

\* Lines 161-168: every set field but status is copied, then a true status.
ApplyTaskUpdate(task, u, now) ==
    [task EXCEPT
        !.completed_at = CompletedAtAfter(task, u, now),
        !.assignee_id = IF "assignee_id" \in u.set THEN u.assignee_id ELSE @,
        !.is_archived = IF "is_archived" \in u.set THEN u.is_archived ELSE @,
        !.priority = IF "priority" \in u.set THEN u.priority ELSE @,
        !.start_date = IF "start_date" \in u.set THEN u.start_date ELSE @,
        !.due_date = IF "due_date" \in u.set THEN u.due_date ELSE @,
        !.status = IF u.status # NoneStr THEN u.status ELSE @]

\* The request reads the clock only when it asks for status done (line 156).
TimesRead(u) == IF u.status = "done" THEN Times ELSE {1}

\* The tasks table after update_task has answered the request; `now` is what
\* datetime.now() returns during the request.
TasksAfterUpdate(a, t, u, now) ==
    IF update_task_code(a, t, u) = OK
    THEN [tasks EXCEPT ![t] = ApplyTaskUpdate(@, u, now)]
    ELSE tasks

update_task(a, t, u, now) ==
    /\ last' = Response("update_task", a, t, update_task_code(a, t, u))
    /\ tasks' = TasksAfterUpdate(a, t, u, now)
    /\ UNCHANGED <<users, projects, members, tags, nextTagId,
                   pendingProjects, pendingTags, registering, updating,
                   discussion, taskTags, notifications>>

\* Line 199: the creator, or a member whose role is owner or admin.
MayDeleteTask(a, t) ==
    tasks[t].creator_id = a \/ RoleOf(tasks[t].project_id, a) \in {"owner", "admin"}

delete_task_code(a, t) ==
    IF t \notin TaskIds THEN NOT_FOUND
    ELSE IF ~check_project_access(tasks[t].project_id, a) THEN FORBIDDEN
    ELSE IF ~MayDeleteTask(a, t) THEN FORBIDDEN
    ELSE OK

delete_task(a, t) ==
    /\ last' = Response("delete_task", a, t, delete_task_code(a, t))
    /\ tasks' = IF delete_task_code(a, t) = OK
                THEN [tasks EXCEPT ![t].is_archived = TRUE]
                ELSE tasks
    /\ UNCHANGED <<users, projects, members, tags, nextTagId,
                   pendingProjects, pendingTags, registering, updating,
                   discussion, taskTags, notifications>>

\* ---------------------------------------------------------------- comments
CommentIds == {c.id : c \in comments}

CommentById(id) == CHOOSE c \in comments : c.id = id

\* check_task_access: 404 for a missing task, 403 unless the user has a
\* membership row of the task's project.
check_task_access_code(t, a) ==
    IF t \notin TaskIds THEN NOT_FOUND
    ELSE IF ~IsMember(tasks[t].project_id, a) THEN FORBIDDEN
    ELSE OK

\* The contents a comment is created with or changed to.
CommentContents == {"c", "d"}

create_comment(a, t, content) ==
    /\ last' = Response("create_comment", a,
                        IF check_task_access_code(t, a) = OK THEN nextCommentId ELSE NULL,
                        check_task_access_code(t, a))
    /\ IF check_task_access_code(t, a) = OK
       THEN /\ comments' = comments \cup
                  {[id |-> nextCommentId, task_id |-> t, user_id |-> a,
                    content |-> content, is_edited |-> FALSE]}
            /\ nextCommentId' = nextCommentId + 1
       ELSE UNCHANGED <<comments, nextCommentId>>
    /\ UNCHANGED <<users, projects, members, tasks, tags, nextTagId,
                   pendingProjects, pendingTags, registering, updating,
                   attachments, nextAttachmentId, blobs, taskTags, notifications>>

\* The content field of a TaskCommentUpdate body: not given, empty, or a text.
CommentUpdates == {NoneStr, ""} \cup CommentContents

\* An update_comment that lets the project's owners and admins edit too.
update_comment_code_admin_override(a, id) ==
    IF id \notin CommentIds THEN NOT_FOUND
    ELSE IF /\ CommentById(id).user_id # a
            /\ ~HasAdminRights(tasks[CommentById(id).task_id].project_id, a)
         THEN FORBIDDEN
    ELSE check_task_access_code(CommentById(id).task_id, a)

update_comment_code(a, id) ==
    IF id \notin CommentIds THEN NOT_FOUND
    ELSE IF CommentById(id).user_id # a THEN FORBIDDEN
    ELSE check_task_access_code(CommentById(id).task_id, a)

\* Lines 98-100: a content that is true (given and not empty) replaces the
\* text and marks the comment as edited.
ApplyCommentUpdate(comment, content) ==
    IF content \notin {NoneStr, ""}
    THEN [comment EXCEPT !.content = content, !.is_edited = TRUE]
    ELSE comment

\* The task_comments table after update_comment has answered the request.
CommentsAfterUpdate(a, id, content) ==
    IF update_comment_code(a, id) = OK
    THEN (comments \ {CommentById(id)}) \cup {ApplyCommentUpdate(CommentById(id), content)}
    ELSE comments

update_comment(a, id, content) ==
    /\ last' = Response("update_comment", a, id, update_comment_code(a, id))
    /\ comments' = CommentsAfterUpdate(a, id, content)
    /\ UNCHANGED <<users, projects, members, tasks, tags, nextTagId,
                   pendingProjects, pendingTags, registering, updating, nextCommentId,
                   attachments, nextAttachmentId, blobs, taskTags, notifications>>

\* Lines 122-134 of delete_comment, 222-234 of delete_attachment, for a row of
\* task t written by user author: `membership.role` is read only when the
\* actor is not the author, and raises AttributeError (an unhandled failure,
\* 500) when the actor has no membership row.
delete_row_code(a, t, author) ==
    IF author = a THEN OK
    ELSE IF ~IsMember(tasks[t].project_id, a) THEN SERVER_ERROR
    ELSE IF RoleOf(tasks[t].project_id, a) \notin {"owner", "admin"} THEN FORBIDDEN
    ELSE OK

\* A delete_comment that lets every member of the project delete.
delete_comment_code_any_member(a, id) ==
    IF id \notin CommentIds THEN NOT_FOUND
    ELSE IF /\ CommentById(id).user_id # a
            /\ ~IsMember(tasks[CommentById(id).task_id].project_id, a)
         THEN SERVER_ERROR
    ELSE OK

delete_comment_code(a, id) ==
    IF id \notin CommentIds THEN NOT_FOUND
    ELSE delete_row_code(a, CommentById(id).task_id, CommentById(id).user_id)

\* The task_comments table after delete_comment has answered the request.
CommentsAfterDelete(a, id) ==
    IF delete_comment_code(a, id) = OK THEN comments \ {CommentById(id)} ELSE comments

delete_comment(a, id) ==
    /\ last' = Response("delete_comment", a, id, delete_comment_code(a, id))
    /\ comments' = CommentsAfterDelete(a, id)
    /\ UNCHANGED <<users, projects, members, tasks, tags, nextTagId,
                   pendingProjects, pendingTags, registering, updating, nextCommentId,
                   attachments, nextAttachmentId, blobs, taskTags, notifications>>

\* ------------------------------------------------------------- attachments
AttachmentIds == {x.id : x \in attachments}

AttachmentById(id) == CHOOSE x \in attachments : x.id = id

\* Line 153: 10MB, in bytes.
max_file_size == 10 * 1024 * 1024

\* The lengths of the uploaded files.
FileSizes == {max_file_size, max_file_size + 1}

\* An upload_attachment whose limit refuses a file of exactly max_file_size.
upload_attachment_code_limit_exclusive(a, t, size) ==
    IF check_task_access_code(t, a) # OK THEN check_task_access_code(t, a)
    ELSE IF size >= max_file_size THEN TOO_LARGE
    ELSE OK

upload_attachment_code(a, t, size) ==
    IF check_task_access_code(t, a) # OK THEN check_task_access_code(t, a)
    ELSE IF size > max_file_size THEN TOO_LARGE
    ELSE OK

\* Line 167: uuid4 gives a name that no file and no row has.
unique_filename ==
    CHOOSE k \in 1..(Cardinality(blobs) + Cardinality(attachments) + 1) :
        k \notin blobs \cup {row.filename : row \in attachments}

\* upload_attachment: the file is written under a fresh name, then the row is
\* inserted and committed.
upload_attachment(a, t, size) ==
    /\ last' = Response("upload_attachment", a,
                        IF upload_attachment_code(a, t, size) = OK
                        THEN nextAttachmentId ELSE NULL,
                        upload_attachment_code(a, t, size))
    /\ IF upload_attachment_code(a, t, size) = OK
       THEN /\ blobs' = blobs \cup {unique_filename}
            /\ attachments' = attachments \cup
                  {[id |-> nextAttachmentId, task_id |-> t, user_id |-> a,
                    filename |-> unique_filename, file_size |-> size]}
            /\ nextAttachmentId' = nextAttachmentId + 1
       ELSE UNCHANGED <<blobs, attachments, nextAttachmentId>>
    /\ UNCHANGED <<users, projects, members, tasks, tags, nextTagId,
                   pendingProjects, pendingTags, registering, updating,
                   comments, nextCommentId, taskTags, notifications>>

\* upload_attachment when db.commit() (line 186) raises (a filename or content
\* type longer than its column, the store or the connection lost): the file
\* of lines 171-172 is written, nothing removes it, and the exception is not
\* handled.
upload_attachment_commit_fails(a, t, size) ==
    /\ upload_attachment_code(a, t, size) = OK
    /\ blobs' = blobs \cup {unique_filename}
    /\ last' = Response("upload_attachment", a, NULL, SERVER_ERROR)
    /\ UNCHANGED <<users, projects, members, tasks, tags, nextTagId,
                   pendingProjects, pendingTags, registering, updating,
                   comments, nextCommentId, attachments, nextAttachmentId,
                   taskTags, notifications>>

delete_attachment_code(a, id) ==
    IF id \notin AttachmentIds THEN NOT_FOUND
    ELSE delete_row_code(a, AttachmentById(id).task_id, AttachmentById(id).user_id)

\* The task_attachments table after delete_attachment has answered the request.
AttachmentsAfterDelete(a, id) ==
    IF delete_attachment_code(a, id) = OK
    THEN attachments \ {AttachmentById(id)}
    ELSE attachments

\* delete_attachment: os.remove of the file (a missing file is ignored), then
\* the row is deleted and the deletion committed.
delete_attachment(a, id) ==
    /\ last' = Response("delete_attachment", a, id, delete_attachment_code(a, id))
    /\ attachments' = AttachmentsAfterDelete(a, id)
    /\ blobs' = IF delete_attachment_code(a, id) = OK
                THEN blobs \ {AttachmentById(id).filename}
                ELSE blobs
    /\ UNCHANGED <<users, projects, members, tasks, tags, nextTagId,
                   pendingProjects, pendingTags, registering, updating,
                   comments, nextCommentId, nextAttachmentId, taskTags, notifications>>

\* ---------------------------------------------------------------- register
\* The users table's unique columns (models.py: login_id and email, unique=True):
\* whether the store accepts a row with this login_id and email.
UsersUniqueOk(login_id, email) ==
    \A row \in users : row.login_id # login_id /\ row.email # email

\* register's existence query (lines 15-17).
ExistingUser(login_id, email) ==
    \E row \in users : row.login_id = login_id \/ row.email = email

\* register up to its existence check: 400 when a row matches, else the request
\* goes on to hash the password and build the row.
register_check(k, login_id, email) ==
    /\ Cardinality(registering) < MaxRegistering
    /\ \A r \in registering : r.req # k
    /\ IF ExistingUser(login_id, email)
       THEN /\ last' = Response("register", NULL, NULL, BAD_REQUEST)
            /\ registering' = registering
       ELSE /\ registering' = registering \cup
                  {[req |-> k, login_id |-> login_id, email |-> email]}
            /\ last' = NoResponse
    /\ UNCHANGED <<users, projects, members, tasks, tags, nextTagId,
                   pendingProjects, pendingTags, updating,
                   discussion, taskTags, notifications>>

\* register's db.add and db.commit(): the store checks the unique columns; the
\* IntegrityError it raises is not caught, and the framework answers 500.
register_commit(r) ==
    /\ r \in registering
    /\ registering' = registering \ {r}
    /\ IF UsersUniqueOk(r.login_id, r.email)
       THEN /\ users' = users \cup {[id |-> Cardinality(users) + 1,
                                     login_id |-> r.login_id, email |-> r.email]}
            /\ last' = Response("register", NULL, Cardinality(users) + 1, OK)
       ELSE /\ users' = users
            /\ last' = Response("register", NULL, NULL, SERVER_ERROR)
    /\ UNCHANGED <<projects, members, tasks, tags, nextTagId,
                   pendingProjects, pendingTags, updating,
                   discussion, taskTags, notifications>>

\* delete_attachment when db.commit() (line 243) raises (the store or the
\* connection lost): the file is removed at line 238 already, and the
\* exception is not handled.
delete_attachment_commit_fails(a, id) ==
    /\ delete_attachment_code(a, id) = OK
    /\ blobs' = blobs \ {AttachmentById(id).filename}
    /\ last' = Response("delete_attachment", a, id, SERVER_ERROR)
    /\ UNCHANGED <<users, projects, members, tasks, tags, nextTagId,
                   pendingProjects, pendingTags, registering, updating,
                   comments, nextCommentId, attachments, nextAttachmentId,
                   taskTags, notifications>>

\* ------------------------------------------------------------------- users
\* The fields of a UserUpdate body the handler branches on; `set` is
\* dict(exclude_unset=True)'s keys, an email that is not set or is null reads
\* as None.
UserUpdates ==
    {[set |-> S, email |-> e] :
        S \in SUBSET {"email"}, e \in {NoneStr} \cup Emails} \
    {[set |-> {}, email |-> e] : e \in Emails}

\* update_current_user's existence query (lines 24-27).
EmailOfAnother(a, email) ==
    \E row \in users : row.email = email /\ row.id # a

\* Lines 23-32: 400 when the email given is another user's.
update_current_user_check_code(a, u) ==
    IF u.email # NoneStr /\ EmailOfAnother(a, u.email) THEN BAD_REQUEST ELSE OK

\* update_current_user up to its email check, for an authenticated user a.
update_current_user_check(a, u) ==
    /\ \E row \in users : row.id = a
    /\ Cardinality(updating) < MaxUpdating
    /\ IF update_current_user_check_code(a, u) # OK
       THEN /\ last' = Response("update_current_user", a, a,
                                update_current_user_check_code(a, u))
            /\ updating' = updating
       ELSE /\ updating' = updating \cup {[actor |-> a, update |-> u]}
            /\ last' = NoResponse
    /\ UNCHANGED <<users, projects, members, tasks, tags, nextTagId,
                   pendingProjects, pendingTags, registering,
                   discussion, taskTags, notifications>>

\* What the store answers to the UPDATE of db.commit() (line 39): the email
\* column is unique and not null (models.py line 24), and the IntegrityError
\* is not caught.
update_current_user_commit_code(a, u) ==
    IF "email" \notin u.set THEN OK
    ELSE IF u.email = NoneStr THEN SERVER_ERROR
    ELSE IF EmailOfAnother(a, u.email) THEN SERVER_ERROR
    ELSE OK

\* The users table after update_current_user's commit.
UsersAfterUpdate(a, u) ==
    IF update_current_user_commit_code(a, u) = OK /\ "email" \in u.set
    THEN {IF row.id = a THEN [row EXCEPT !.email = u.email] ELSE row : row \in users}
    ELSE users

\* Lines 35-40: the set fields are copied to the row and committed.
update_current_user_commit(r) ==
    /\ r \in updating
    /\ updating' = updating \ {r}
    /\ users' = UsersAfterUpdate(r.actor, r.update)
    /\ last' = Response("update_current_user", r.actor, r.actor,
                        update_current_user_commit_code(r.actor, r.update))
    /\ UNCHANGED <<projects, members, tasks, tags, nextTagId,
                   pendingProjects, pendingTags, registering,
                   discussion, taskTags, notifications>>

\* -------------------------------------------------------------------- tags
TagIds == {t.id : t \in tags}

TagById(id) == CHOOSE t \in tags : t.id = id

\* The fields of a TagCreate body; project_id NULL asks for a global tag.
TagCreates ==
    {[name |-> n, project_id |-> p] : n \in TagNames, p \in {NULL} \cup (1..MaxProjects)}

\* create_tag's existence query (lines 32-35); `Tag.project_id == None` is
\* rendered IS NULL, so a global request matches the global tags.
ExistingTag(name, project_id) ==
    \E t \in tags : t.name = name /\ t.project_id = project_id

\* The tags table's UniqueConstraint('name', 'project_id') (models.py line 121)
\* as the store checks it for the row `id`: SQL compares NULLs as distinct, so
\* only rows of a project can collide.
TagsUniqueOk(id, name, project_id) ==
    \A t \in tags :
        t.id # id => ~(t.name = name /\ t.project_id = project_id /\ project_id # NULL)

\* create_tag up to its existence check.
create_tag_check(a, d) ==
    /\ Cardinality(pendingTags) < MaxPendingTags
    /\ Cardinality(tags) + Cardinality(pendingTags) < MaxTags
    /\ IF d.project_id # NULL /\ ~IsMember(d.project_id, a)
       THEN /\ last' = Response("create_tag", a, NULL, FORBIDDEN)
            /\ pendingTags' = pendingTags
       ELSE IF ExistingTag(d.name, d.project_id)
       THEN /\ last' = Response("create_tag", a, NULL, BAD_REQUEST)
            /\ pendingTags' = pendingTags
       ELSE /\ pendingTags' = pendingTags \cup
                  {[actor |-> a, name |-> d.name, project_id |-> d.project_id]}
            /\ last' = NoResponse
    /\ UNCHANGED <<users, projects, members, tasks, tags, nextTagId,
                   pendingProjects, registering, updating,
                   discussion, taskTags, notifications>>

\* create_tag's db.add and db.commit() (lines 43-52).
create_tag_commit(r) ==
    /\ r \in pendingTags
    /\ pendingTags' = pendingTags \ {r}
    /\ IF TagsUniqueOk(nextTagId, r.name, r.project_id)
       THEN /\ tags' = tags \cup {[id |-> nextTagId, name |-> r.name,
                                   project_id |-> r.project_id, created_by |-> r.actor]}
            /\ nextTagId' = nextTagId + 1
            /\ last' = Response("create_tag", r.actor, nextTagId, OK)
       ELSE /\ tags' = tags
            /\ nextTagId' = nextTagId
            /\ last' = Response("create_tag", r.actor, NULL, SERVER_ERROR)
    /\ UNCHANGED <<users, projects, members, tasks, pendingProjects, registering, updating,
                   discussion, taskTags, notifications>>

\* Lines 113-130: the creator, or for a project's tag an owner or admin of it.
MayEditTag(a, tag) ==
    IF tag.project_id # NULL
    THEN tag.created_by = a \/ HasAdminRights(tag.project_id, a)
    ELSE tag.created_by = a

\* The fields a TagUpdate body may set.
TagUpdates == {[set |-> S, name |-> n] : S \in SUBSET {"name"}, n \in TagNames}

\* An update_tag without the permission check.
update_tag_code_no_permission_check(a, id, u) ==
    IF id \notin TagIds THEN NOT_FOUND
    ELSE IF "name" \in u.set /\ ~TagsUniqueOk(id, u.name, TagById(id).project_id)
         THEN SERVER_ERROR
    ELSE OK

\* update_tag: no existence query precedes the commit (lines 132-137), the
\* store's constraint alone can refuse the new name.
update_tag_code(a, id, u) ==
    IF id \notin TagIds THEN NOT_FOUND
    ELSE IF ~MayEditTag(a, TagById(id)) THEN FORBIDDEN
    ELSE IF "name" \in u.set /\ ~TagsUniqueOk(id, u.name, TagById(id).project_id)
         THEN SERVER_ERROR
    ELSE OK

\* The tags table after update_tag has answered the request.
TagsAfterUpdate(a, id, u) ==
    IF update_tag_code(a, id, u) = OK /\ "name" \in u.set
    THEN (tags \ {TagById(id)}) \cup {[TagById(id) EXCEPT !.name = u.name]}
    ELSE tags

update_tag(a, id, u) ==
    /\ last' = Response("update_tag", a, id, update_tag_code(a, id, u))
    /\ tags' = TagsAfterUpdate(a, id, u)
    /\ UNCHANGED <<users, projects, members, tasks, nextTagId,
                   pendingProjects, pendingTags, registering, updating,
                   discussion, taskTags, notifications>>

\* delete_tag, lines 158-175: the creator, or for a project's tag an owner or
\* admin of it.
MayDeleteTag(a, tag) ==
    IF tag.project_id # NULL
    THEN tag.created_by = a \/ HasAdminRights(tag.project_id, a)
    ELSE tag.created_by = a

\* Line 178: the number of TaskTag rows of the tag.
usage_count(id) == Cardinality({r \in taskTags : r.tag_id = id})

\* A delete_tag that does not count the tag's TaskTag rows.
delete_tag_code_no_usage_check(a, id) ==
    IF id \notin TagIds THEN NOT_FOUND
    ELSE IF ~MayDeleteTag(a, TagById(id)) THEN FORBIDDEN
    ELSE OK

delete_tag_code(a, id) ==
    IF id \notin TagIds THEN NOT_FOUND
    ELSE IF ~MayDeleteTag(a, TagById(id)) THEN FORBIDDEN
    ELSE IF usage_count(id) > 0 THEN BAD_REQUEST
    ELSE OK

\* The tags table after delete_tag has answered the request.
TagsAfterDelete(a, id) ==
    IF delete_tag_code(a, id) = OK THEN tags \ {TagById(id)} ELSE tags

\* delete_tag; the refusal of a tag in use carries the count in its detail.
delete_tag(a, id) ==
    /\ last' = DetailedResponse("delete_tag", a, id, delete_tag_code(a, id),
                                IF delete_tag_code(a, id) = BAD_REQUEST
                                THEN usage_count(id) ELSE NULL)
    /\ tags' = TagsAfterDelete(a, id)
    /\ UNCHANGED <<users, projects, members, tasks, nextTagId,
                   pendingProjects, pendingTags, registering, updating,
                   discussion, taskTags, notifications>>

\* A TaskTag row is written to the store (no handler of the routers inserts
\* one): the table's foreign keys ask for a stored task and a stored tag, its
\* UniqueConstraint('task_id', 'tag_id') for a new pair.
insert_task_tag(t, g) ==
    /\ t \in TaskIds
    /\ g \in TagIds
    /\ [task_id |-> t, tag_id |-> g] \notin taskTags
    /\ taskTags' = taskTags \cup {[task_id |-> t, tag_id |-> g]}
    /\ last' = NoResponse
    /\ UNCHANGED <<users, projects, members, tasks, tags, nextTagId,
                   pendingProjects, pendingTags, registering, updating,
                   discussion, notifications>>

\* ------------------------------------------------------------ notifications
NotificationIds == 1..Len(notifications)

\* A Notification row is written to the store (no handler of the routers
\* inserts one); is_read defaults to False.
insert_notification(u) ==
    /\ notifications' = Append(notifications, [user_id |-> u, is_read |-> FALSE])
    /\ last' = NoResponse
    /\ UNCHANGED <<users, projects, members, tasks, tags, nextTagId,
                   pendingProjects, pendingTags, registering, updating,
                   discussion, taskTags>>

\* mark_notification_read's query: the row of that id and of the actor.
mark_notification_read_code(table, a, id) ==
    IF id \in 1..Len(table) /\ table[id].user_id = a THEN OK ELSE NOT_FOUND

\* The table after mark_notification_read on it.
mark_notification_read_table(table, a, id) ==
    IF mark_notification_read_code(table, a, id) = OK
    THEN [table EXCEPT ![id].is_read = TRUE]
    ELSE table

mark_notification_read(a, id) ==
    /\ last' = Response("mark_notification_read", a, id,
                        mark_notification_read_code(notifications, a, id))
    /\ notifications' = mark_notification_read_table(notifications, a, id)
    /\ UNCHANGED <<users, projects, members, tasks, tags, nextTagId,
                   pendingProjects, pendingTags, registering, updating,
                   discussion, taskTags>>

\* A mark_all_notifications_read whose query has no user filter.
mark_all_notifications_read_table_every_user(table, a) ==
    [i \in 1..Len(table) |-> [table[i] EXCEPT !.is_read = TRUE]]

\* The table after mark_all_notifications_read on it: the bulk update of the
\* actor's rows with is_read False (lines 236-239).
mark_all_notifications_read_table(table, a) ==
    [i \in 1..Len(table) |->
        IF table[i].user_id = a /\ table[i].is_read = FALSE
        THEN [table[i] EXCEPT !.is_read = TRUE]
        ELSE table[i]]

mark_all_notifications_read(a) ==
    /\ last' = Response("mark_all_notifications_read", a, NULL, OK)
    /\ notifications' = mark_all_notifications_read_table(notifications, a)
    /\ UNCHANGED <<users, projects, members, tasks, tags, nextTagId,
                   pendingProjects, pendingTags, registering, updating,
                   discussion, taskTags>>

\* ------------------------------------------------------- the specification
RegisteredUsers ==
    {[id |-> 1, login_id |-> "la", email |-> "ea"],
     [id |-> 2, login_id |-> "lb", email |-> "eb"],
     [id |-> 3, login_id |-> "lc", email |-> "ec"]}

\* An empty store but for the registered users, who hold valid tokens.
Init ==
    /\ users = RegisteredUsers
    /\ projects = <<>>
    /\ members = {}
    /\ tasks = <<>>
    /\ tags = {}
    /\ nextTagId = 1
    /\ pendingProjects = {}
    /\ pendingTags = {}
    /\ registering = {}
    /\ updating = {}
    /\ comments = {}
    /\ nextCommentId = 1
    /\ attachments = {}
    /\ nextAttachmentId = 1
    /\ blobs = {}
    /\ taskTags = {}
    /\ notifications = <<>>
    /\ last = NoResponse

\* The project handlers.
Next ==
    \/ \E a \in Creators :
          Len(projects) < MaxProjects /\ create_project_first_commit(a, "p")
    \/ \E r \in pendingProjects : create_project_second_commit(r)
    \/ \E r \in pendingProjects : create_project_second_commit_fails(r)
    \/ \E a \in Users, p \in 1..MaxProjects : get_project(a, p)
    \/ \E a \in Users, p \in 1..MaxProjects, u \in ProjectUpdates : update_project(a, p, u)
    \/ \E a \in Users, p \in 1..MaxProjects : delete_project(a, p)
    \/ \E a \in Users, p \in 1..MaxProjects, u \in TargetUsers, role \in Roles :
          add_project_member(a, p, u, role)

Spec == Init /\ [][Next]_vars

\* The task handlers, over the projects and memberships the project handlers make.
NextTasks ==
    \/ \E a \in Creators :
          Len(projects) < MaxProjects /\ create_project_first_commit(a, "p")
    \/ \E r \in pendingProjects : create_project_second_commit(r)
    \/ \E a \in Users, p \in 1..MaxProjects, u \in Users, role \in Roles \ {"owner"} :
          add_project_member(a, p, u, role)
    \/ \E a \in Users, d \in TaskCreates :
          /\ create_task_code(a, d) = OK => Len(tasks) < MaxTasks
          /\ create_task(a, d)
    \/ \E a \in Users, t \in 1..MaxTasks, u \in TaskUpdates :
          \E now \in TimesRead(u) : update_task(a, t, u, now)
    \/ \E a \in Users, t \in 1..MaxTasks : delete_task(a, t)
    \/ \E a \in Users, t \in 1..MaxTasks : get_task(a, t)

SpecTasks == Init /\ [][NextTasks]_vars

\* The task bodies and updates of the listing specification: a parent among
\* the tasks it can hold, and the fields the listings select on.
SubtaskCreates ==
    {[project_id |-> p, parent_task_id |-> q, assignee_id |-> u, status |-> st,
      priority |-> "medium", start_date |-> NULL, due_date |-> NULL] :
        p \in 1..MaxProjects, q \in {NULL} \cup (1..(MaxTasks + MaxSubtasks)),
        u \in {NULL, 2}, st \in {"todo", "done"}}

ArchiveUpdates == {u \in TaskUpdates : u.set = {"is_archived"}}

\* The listing handlers, over tasks and subtasks that are archived and restored.
NextSubtasks ==
    \/ \E a \in Creators :
          Len(projects) < MaxProjects /\ create_project_first_commit(a, "p")
    \/ \E r \in pendingProjects : create_project_second_commit(r)
    \/ \E a \in Users, p \in 1..MaxProjects : add_project_member(a, p, 2, "member")
    \/ \E a \in Users, d \in SubtaskCreates :
          /\ create_task_code(a, d) = OK => Len(tasks) < MaxTasks + MaxSubtasks
          /\ create_task(a, d)
    \/ \E a \in Users, t \in 1..(MaxTasks + MaxSubtasks), u \in ArchiveUpdates :
          update_task(a, t, u, 1)
    \/ \E a \in Users, t \in 1..(MaxTasks + MaxSubtasks) : delete_task(a, t)
    \/ \E a \in Users, t \in 1..(MaxTasks + MaxSubtasks) : get_task(a, t)
    \/ \E a \in Users, f \in TaskFilters : get_tasks(a, f)
    \/ \E a \in Users, t \in 1..(MaxTasks + MaxSubtasks) : get_subtasks(a, t)
    \/ \E a \in Users : get_calendar_tasks(a, 1, 2)

SpecSubtasks == Init /\ [][NextSubtasks]_vars

\* The task bodies of the parent specification: a project among those it can
\* hold and a parent among the tasks it can hold.
ParentCreates ==
    {[project_id |-> p, parent_task_id |-> q, assignee_id |-> NULL, status |-> "todo",
      priority |-> "medium", start_date |-> NULL, due_date |-> NULL] :
        p \in 1..(MaxProjects + MaxOtherProjects),
        q \in {NULL} \cup (1..(MaxTasks + MaxSubtasks))}

\* The task handlers that write, over the tasks of more than one project.
NextParents ==
    \/ \E a \in Creators :
          /\ Len(projects) < MaxProjects + MaxOtherProjects
          /\ create_project_first_commit(a, "p")
    \/ \E r \in pendingProjects : create_project_second_commit(r)
    \/ \E a \in Users, d \in ParentCreates :
          /\ create_task_code(a, d) = OK => Len(tasks) < MaxTasks + MaxSubtasks
          /\ create_task(a, d)
    \/ \E a \in Users, t \in 1..(MaxTasks + MaxSubtasks), u \in ArchiveUpdates :
          update_task(a, t, u, 1)
    \/ \E a \in Users, t \in 1..(MaxTasks + MaxSubtasks) : delete_task(a, t)

SpecParents == Init /\ [][NextParents]_vars

\* The task bodies and updates of the calendar specification: every pair of
\* dates, none included.
CalendarCreates ==
    {[project_id |-> p, parent_task_id |-> NULL, assignee_id |-> NULL, status |-> "todo",
      priority |-> "medium", start_date |-> s, due_date |-> e] :
        p \in 1..MaxProjects, s \in {NULL} \cup Dates, e \in {NULL} \cup Dates}

CalendarUpdates ==
    {[set |-> {"due_date"}, status |-> NoneStr, assignee_id |-> NULL,
      is_archived |-> FALSE, due_date |-> e] : e \in {NULL} \cup Dates}

\* The calendar request, over dated tasks that are rescheduled and archived.
NextCalendar ==
    \/ \E a \in Creators :
          Len(projects) < MaxProjects /\ create_project_first_commit(a, "p")
    \/ \E r \in pendingProjects : create_project_second_commit(r)
    \/ \E a \in Users, p \in 1..MaxProjects : add_project_member(a, p, 2, "member")
    \/ \E a \in Users, d \in CalendarCreates :
          /\ create_task_code(a, d) = OK => Len(tasks) < MaxTasks
          /\ create_task(a, d)
    \/ \E a \in Users, t \in 1..MaxTasks, u \in CalendarUpdates : update_task(a, t, u, 1)
    \/ \E a \in Users, t \in 1..MaxTasks : delete_task(a, t)
    \/ \E a \in Users, from \in Dates, to \in Dates : get_calendar_tasks(a, from, to)

SpecCalendar == Init /\ [][NextCalendar]_vars

\* The strings a request may give for a task's status and priority and for a
\* member's role: the schemas type the three fields as str.
StatusStrings == {"todo", "done", "blocked"}

PriorityStrings == {"medium", "urgent", "asap"}

RoleStrings == {"admin", "member", "guest"}

\* The task bodies and updates of the specification of the three fields.
FieldCreates ==
    {[project_id |-> p, parent_task_id |-> NULL, assignee_id |-> NULL, status |-> st,
      priority |-> pr, start_date |-> NULL, due_date |-> NULL] :
        p \in 1..MaxProjects, st \in StatusStrings, pr \in PriorityStrings}

FieldUpdates ==
    {[set |-> S,
      status |-> IF "status" \in S THEN st ELSE NoneStr,
      assignee_id |-> NULL, is_archived |-> FALSE,
      priority |-> IF "priority" \in S THEN pr ELSE NoneStr] :
        S \in (SUBSET {"status", "priority"}) \ {{}},
        st \in StatusStrings, pr \in PriorityStrings}

\* The handlers that store a status, a priority or a role.
NextFields ==
    \/ \E a \in Creators :
          Len(projects) < MaxProjects /\ create_project_first_commit(a, "p")
    \/ \E r \in pendingProjects : create_project_second_commit(r)
    \/ \E a \in Users, p \in 1..MaxProjects, u \in Users, role \in RoleStrings :
          add_project_member(a, p, u, role)
    \/ \E a \in Users, d \in FieldCreates :
          /\ create_task_code(a, d) = OK => Len(tasks) < MaxTasks
          /\ create_task(a, d)
    \/ \E a \in Users, t \in 1..MaxTasks, u \in FieldUpdates : update_task(a, t, u, 1)

SpecFields == Init /\ [][NextFields]_vars

\* A task body with no parent and no assignee.
PlainCreates ==
    {[project_id |-> p, parent_task_id |-> NULL, assignee_id |-> NULL, status |-> "todo",
      priority |-> "medium", start_date |-> NULL, due_date |-> NULL] :
        p \in 1..MaxProjects}

\* The comment and attachment handlers, over one project's members and task.
NextComments ==
    \/ \E a \in Creators :
          Len(projects) < MaxProjects /\ create_project_first_commit(a, "p")
    \/ \E r \in pendingProjects : create_project_second_commit(r)
    \/ \E a \in Users, p \in 1..MaxProjects, u \in Users, role \in {"admin", "member"} :
          add_project_member(a, p, u, role)
    \/ \E a \in Creators, d \in PlainCreates :
          /\ create_task_code(a, d) = OK => Len(tasks) < MaxTasks
          /\ create_task(a, d)
    \/ \E a \in Users, t \in 1..MaxTasks :
          nextCommentId <= MaxComments /\ create_comment(a, t, "c")
    \/ \E a \in Users, id \in 1..MaxComments, content \in CommentUpdates :
          update_comment(a, id, content)
    \/ \E a \in Users, id \in 1..MaxComments : delete_comment(a, id)
    \/ \E a \in Users, t \in 1..MaxTasks, size \in FileSizes :
          /\ upload_attachment_code(a, t, size) = OK => nextAttachmentId <= MaxAttachments
          /\ upload_attachment(a, t, size)
    \/ \E a \in Users, id \in 1..MaxAttachments : delete_attachment(a, id)

SpecComments == Init /\ [][NextComments]_vars

\* The tag handlers, over the projects and memberships the project handlers make.
NextTags ==
    \/ \E a \in Creators :
          Len(projects) < MaxProjects /\ create_project_first_commit(a, "p")
    \/ \E r \in pendingProjects : create_project_second_commit(r)
    \/ \E a \in Users, p \in 1..MaxProjects, u \in Users, role \in {"admin", "member"} :
          add_project_member(a, p, u, role)
    \/ \E a \in Users, d \in TagCreates : create_tag_check(a, d)
    \/ \E r \in pendingTags : create_tag_commit(r)
    \/ \E a \in Users, id \in 1..MaxTags, u \in TagUpdates : update_tag(a, id, u)

SpecTags == Init /\ [][NextTags]_vars

\* The tag handlers one request at a time, over tags that tasks carry.
NextTagUse ==
    \/ \E a \in Creators :
          Len(projects) < MaxProjects /\ create_project_first_commit(a, "p")
    \/ \E r \in pendingProjects : create_project_second_commit(r)
    \/ \E a \in Users, p \in 1..MaxProjects, role \in {"admin", "member"} :
          add_project_member(a, p, 2, role)
    \/ \E a \in Creators, d \in PlainCreates :
          /\ create_task_code(a, d) = OK => Len(tasks) < MaxTasks + MaxSubtasks
          /\ create_task(a, d)
    \/ \E a \in Users, d \in TagCreates :
          /\ pendingTags = {}
          /\ nextTagId <= MaxTags
          /\ create_tag_check(a, d)
    \/ \E r \in pendingTags : create_tag_commit(r)
    \/ \E t \in 1..(MaxTasks + MaxSubtasks), g \in 1..MaxTags : insert_task_tag(t, g)
    \/ \E a \in Users, id \in 1..MaxTags, u \in TagUpdates : update_tag(a, id, u)
    \/ \E a \in Users, id \in 1..MaxTags : delete_tag(a, id)

SpecTagUse == Init /\ [][NextTagUse]_vars

\* The notification handlers, over the notifications of the registered users.
NextNotifications ==
    \/ \E u \in Users :
          Len(notifications) < MaxNotifications /\ insert_notification(u)
    \/ \E a \in Users, id \in 1..(MaxNotifications + 1) : mark_notification_read(a, id)
    \/ \E a \in Users : mark_all_notifications_read(a)

SpecNotifications == Init /\ [][NextNotifications]_vars

\* Registration, from an empty users table.
InitRegister ==
    /\ users = {}
    /\ projects = <<>>
    /\ members = {}
    /\ tasks = <<>>
    /\ tags = {}
    /\ nextTagId = 1
    /\ pendingProjects = {}
    /\ pendingTags = {}
    /\ registering = {}
    /\ updating = {}
    /\ comments = {}
    /\ nextCommentId = 1
    /\ attachments = {}
    /\ nextAttachmentId = 1
    /\ blobs = {}
    /\ taskTags = {}
    /\ notifications = <<>>
    /\ last = NoResponse

NextRegister ==
    \/ \E k \in 1..MaxRegistering, l \in LoginIds, e \in Emails : register_check(k, l, e)
    \/ \E r \in registering : register_commit(r)

SpecRegister == InitRegister /\ [][NextRegister]_vars

\* Registration and the update of one's own account, from an empty users table.
NextAccounts ==
    \/ \E k \in 1..MaxRegistering, l \in LoginIds, e \in Emails : register_check(k, l, e)
    \/ \E r \in registering : register_commit(r)
    \/ \E a \in Users, u \in UserUpdates : update_current_user_check(a, u)
    \/ \E r \in updating : update_current_user_commit(r)

SpecAccounts == InitRegister /\ [][NextAccounts]_vars

\* The attachment handlers over a store whose commits may fail.
NextBlobs ==
    \/ \E a \in Creators :
          Len(projects) < MaxProjects /\ create_project_first_commit(a, "p")
    \/ \E r \in pendingProjects : create_project_second_commit(r)
    \/ \E a \in Users, p \in 1..MaxProjects, u \in Users, role \in {"admin", "member"} :
          add_project_member(a, p, u, role)
    \/ \E a \in Creators, d \in PlainCreates :
          /\ create_task_code(a, d) = OK => Len(tasks) < MaxTasks
          /\ create_task(a, d)
    \/ \E a \in Users, t \in 1..MaxTasks, size \in FileSizes :
          /\ upload_attachment_code(a, t, size) = OK => nextAttachmentId <= MaxAttachments
          /\ upload_attachment(a, t, size)
    \/ \E a \in Users, t \in 1..MaxTasks, size \in FileSizes :
          Cardinality(blobs) <= MaxAttachments /\ upload_attachment_commit_fails(a, t, size)
    \/ \E a \in Users, id \in 1..MaxAttachments : delete_attachment(a, id)
    \/ \E a \in Users, id \in 1..MaxAttachments : delete_attachment_commit_fails(a, id)

SpecBlobs == Init /\ [][NextBlobs]_vars

\* The handlers that write projects and memberships, the store never failing.
NextOwners ==
    \/ \E a \in Creators :
          Len(projects) < MaxProjects /\ create_project_first_commit(a, "p")
    \/ \E r \in pendingProjects : create_project_second_commit(r)
    \/ \E a \in Users, p \in 1..MaxProjects, u \in ProjectUpdates : update_project(a, p, u)
    \/ \E a \in Users, p \in 1..MaxProjects, u \in TargetUsers, role \in Roles :
          add_project_member(a, p, u, role)

SpecOwners == Init /\ [][NextOwners]_vars

\* ------------------------------------------------------------------ claims
\* A membership row of user u in project p with a role in R.
HasRoleIn(p, u, R) ==
    \E m \in members : m.project_id = p /\ m.user_id = u /\ m.role \in R

\* C1: in every reachable state every task has status done if and only if its
\* completed_at is not null (after create_task with any status, and after
\* update_task with or without a status).
C1_DoneIffCompletedAt ==
    \A t \in TaskIds : (tasks[t].status = "done") <=> (tasks[t].completed_at # NULL)

\* What C2 says completed_at is after an update asking for status n (NoneStr:
\* none provided) of a task with status s, read at time `now`.
C2_Expected(task, n, now) ==
    IF n = "done" /\ task.status # "done" THEN now
    ELSE IF task.status = "done" /\ n \notin {"done", NoneStr} THEN NULL
    ELSE task.completed_at

\* C2: every accepted update_task sets completed_at to the current time when the
\* requested status is done and the old one is not, clears it when the old status
\* is done and another status is requested, and leaves it as it was in every
\* other case, a request without a status included.
C2_CompletedAtFollowsStatus ==
    [][\A t \in TaskIds, u \in TaskUpdates, now \in Times :
          (last'.op = "update_task" /\ last'.code = OK /\ update_task(last'.actor, t, u, now))
              => tasks'[t].completed_at = C2_Expected(tasks[t], u.status, now)]_vars

\* C3: in every observable state every Project row has the ProjectMember row
\* with role owner of its owner_id, and every membership row is of a stored
\* project: a project without its owner membership is never observable.
C3_ProjectCreationAtomic ==
    /\ \A p \in ProjectIds : HasRoleIn(p, projects[p].owner_id, {"owner"})
    /\ \A m \in members : m.project_id \in ProjectIds

\* C4: a project's is_archived goes from false to true only in a step that
\* answers a delete_project or update_project request of the project's owner
\* (the user of owner_id, or at the least a member whose role is owner): no
\* request of an admin, member, viewer or non-member archives it.
C4_OnlyOwnerArchivesProject ==
    [][\A p \in ProjectIds :
          (~projects[p].is_archived /\ projects'[p].is_archived)
              => /\ last'.op \in {"delete_project", "update_project"}
                 /\ last'.id = p
                 /\ \/ last'.actor = projects[p].owner_id
                    \/ HasRoleIn(p, last'.actor, {"owner"})]_vars

\* C5: a task's is_archived becomes true only in a step that answers a request
\* of the task's creator or of a member with role owner or admin in the task's
\* project.
C5_OnlyCreatorOrAdminArchivesTask ==
    [][\A t \in TaskIds :
          (~tasks[t].is_archived /\ tasks'[t].is_archived)
              => /\ last'.op \in {"delete_task", "update_task"}
                 /\ last'.id = t
                 /\ \/ last'.actor = tasks[t].creator_id
                    \/ HasRoleIn(tasks[t].project_id, last'.actor, {"owner", "admin"})]_vars

\* C6: of two register requests with the same login_id that both ran the
\* existence check before either committed, the second to commit is answered a
\* Conflict-class client error (409 Conflict, or the 400 the handler's own check
\* answers), not an unhandled failure; and the store never holds two users with
\* one login_id.
C6_RegisterRaceIsConflict ==
    /\ [](\A r1, r2 \in users : r1.login_id = r2.login_id => r1 = r2)
    /\ [][\A r \in registering :
            (register_commit(r) /\ \E row \in users : row.login_id = r.login_id)
                => last'.code \in {BAD_REQUEST, 409}]_vars

\* C7: no two Tag rows share a (name, project_id) pair, the global scope (null
\* project_id) counting as one scope, and a create_tag or update_tag request
\* that would make two is denied as a client error, never as a failure of the
\* store.
C7_TagNamesUniquePerScope ==
    /\ \A t1, t2 \in tags :
          (t1.name = t2.name /\ t1.project_id = t2.project_id) => t1 = t2
    /\ last.op \in {"create_tag", "update_tag"} => last.code # SERVER_ERROR

\* A ProjectMember row of user u in project p, whatever its role.
HasMembership(p, u) == \E m \in members : m.project_id = p /\ m.user_id = u

\* Every task with an assignee has one who is a member of the task's project.
C8_AssigneesAreMembers ==
    \A t \in TaskIds :
        tasks[t].assignee_id # NULL
            => HasMembership(tasks[t].project_id, tasks[t].assignee_id)

\* The step answers a create_task request d naming an assignee with no
\* membership row in the request's project.
C8_CreateNamesOutsider(d) ==
    /\ last'.op = "create_task"
    /\ d.assignee_id # NULL
    /\ ~HasMembership(d.project_id, d.assignee_id)
    /\ create_task(last'.actor, d)

\* The step answers an update_task request u on the stored task t naming an
\* assignee with no membership row in the task's project.
C8_UpdateNamesOutsider(t, u) ==
    /\ last'.op = "update_task"
    /\ last'.id = t
    /\ u.assignee_id # NULL
    /\ ~HasMembership(tasks[t].project_id, u.assignee_id)
    /\ \E now \in Times : update_task(last'.actor, t, u, now)

\* C8 as stated: every stored assignee is a member of the task's project, and
\* create_task and update_task answer Forbidden, changing nothing, to every
\* request whose assignee_id names a user without a membership row there.
C8_OutsiderAssigneeForbidden ==
    [][/\ C8_AssigneesAreMembers'
       /\ \A d \in TaskCreates :
             C8_CreateNamesOutsider(d) => (last'.code = FORBIDDEN /\ tasks' = tasks)
       /\ \A t \in TaskIds, u \in TaskUpdates :
             C8_UpdateNamesOutsider(t, u) => (last'.code = FORBIDDEN /\ tasks' = tasks)]_vars

\* create_task's parent check (which runs before the assignee's) refuses d.
C8_ParentRefused(d) ==
    /\ d.parent_task_id # NULL
    /\ \/ d.parent_task_id \notin TaskIds
       \/ tasks[d.parent_task_id].project_id # d.project_id

\* C8 amended: every stored assignee is a member of the task's project, and in
\* every reachable state create_task and update_task refuse, changing nothing,
\* every request whose assignee_id names a user without a membership row in
\* that project: with Forbidden, except that create_task answers Bad Request
\* when the acting member's request also names a parent task that is missing or
\* of another project.
C8_OutsiderAssigneeRefused ==
    /\ C8_AssigneesAreMembers
    /\ \A a \in Users, d \in TaskCreates :
          (d.assignee_id # NULL /\ ~HasMembership(d.project_id, d.assignee_id))
              => /\ TasksAfterCreate(a, d) = tasks
                 /\ create_task_code(a, d) =
                       IF HasMembership(d.project_id, a) /\ C8_ParentRefused(d)
                       THEN BAD_REQUEST ELSE FORBIDDEN
    /\ \A a \in Users, t \in TaskIds, u \in TaskUpdates, now \in Times :
          (u.assignee_id # NULL /\ ~HasMembership(tasks[t].project_id, u.assignee_id))
              => /\ TasksAfterUpdate(a, t, u, now) = tasks
                 /\ update_task_code(a, t, u) = FORBIDDEN

\* A member's update_task was refused for its assignee, while the task holds an
\* assignee who is a member.
C8_Witness ==
    /\ last.op = "update_task"
    /\ last.code = FORBIDDEN
    /\ last.id \in TaskIds
    /\ HasMembership(tasks[last.id].project_id, last.actor)
    /\ tasks[last.id].assignee_id # NULL

\* C9: get_project on an existing project answers the project (200) if the
\* actor has a membership row for it, whatever the role, and Forbidden if not.
C9_GetProjectIffMember ==
    (last.op = "get_project" /\ last.id \in ProjectIds)
        => last.code = IF HasMembership(last.id, last.actor) THEN OK ELSE FORBIDDEN

\* A user who is not the project's creator, so was added as a member, reads it.
C9_Witness ==
    /\ last.op = "get_project"
    /\ last.id \in ProjectIds
    /\ last.code = OK
    /\ last.actor # projects[last.id].owner_id
    /\ HasRoleIn(last.id, last.actor, {"member", "viewer"})

\* C10: in every reachable state update_project on an existing project
\* answers 200 and applies the request's fields when the actor's membership
\* role is owner or admin, and otherwise answers Forbidden and leaves the
\* project as it was; and the response last sent by update_project is the one
\* the actor's role calls for.
C10_UpdateProjectIffOwnerOrAdmin ==
    /\ \A a \in Users, p \in ProjectIds, u \in ProjectUpdates :
          IF HasRoleIn(p, a, {"owner", "admin"})
          THEN /\ update_project_code(a, p) = OK
               /\ ProjectsAfterUpdate(a, p, u) =
                     [projects EXCEPT ![p] = ApplyProjectUpdate(@, u)]
          ELSE /\ update_project_code(a, p) = FORBIDDEN
               /\ ProjectsAfterUpdate(a, p, u) = projects
    /\ (last.op = "update_project" /\ last.id \in ProjectIds)
          => last.code = IF HasRoleIn(last.id, last.actor, {"owner", "admin"})
                         THEN OK ELSE FORBIDDEN

\* An admin has renamed the project.
C10_Witness ==
    /\ last.op = "update_project"
    /\ last.code = OK
    /\ HasRoleIn(last.id, last.actor, {"admin"})
    /\ projects[last.id].name = "q"

\* C11: in every reachable state add_project_member on an existing project
\* adds the requested ProjectMember row if and only if the actor's role in the
\* project is owner or admin, the target is a row of the users table and the
\* target has no membership row of the project; every other request leaves the
\* table as it was, a permitted actor's request for a user who is already a
\* member being answered 400 ("already a member"); and no two membership rows
\* share a (project_id, user_id) pair.
C11_AddMemberIffPermittedAndNew ==
    /\ \A a \in Users, p \in ProjectIds, u \in TargetUsers, role \in Roles :
          LET row == [project_id |-> p, user_id |-> u, role |-> role]
              allowed == /\ HasRoleIn(p, a, {"owner", "admin"})
                         /\ \E usr \in users : usr.id = u
                         /\ ~HasMembership(p, u)
          IN  /\ allowed => /\ add_project_member_code(a, p, u) = OK
                            /\ MembersAfterAdd(a, p, u, role) = members \cup {row}
                            /\ row \notin members
              /\ ~allowed => /\ add_project_member_code(a, p, u) # OK
                             /\ MembersAfterAdd(a, p, u, role) = members
              /\ (HasRoleIn(p, a, {"owner", "admin"}) /\ HasMembership(p, u))
                    => add_project_member_code(a, p, u) = BAD_REQUEST
    /\ \A m1, m2 \in members :
          (m1.project_id = m2.project_id /\ m1.user_id = m2.user_id) => m1 = m2

\* An owner or admin has asked to add a user who is already a member of a
\* project with more than one member, and was refused.
C11_Witness ==
    /\ last.op = "add_project_member"
    /\ last.code = BAD_REQUEST
    /\ \E m \in members : m.project_id = last.id /\ m.user_id # last.actor

\* The assignee a request names, if any, is a member of project p.
C12_AssigneeOk(p, u) == u = NULL \/ HasMembership(p, u)

\* C12: in every reachable state create_task, get_task and update_task answer
\* Forbidden and change nothing for every actor without a ProjectMember row in
\* the task's project, and succeed (200, the task stored or updated as asked)
\* for every actor with one, whatever its role, the request passing the
\* handler's checks of its parent task and assignee.
C12_TaskAccessIffMember ==
    /\ \A a \in Users, d \in TaskCreates :
          IF HasMembership(d.project_id, a)
          THEN (~C8_ParentRefused(d) /\ C12_AssigneeOk(d.project_id, d.assignee_id))
                  => /\ create_task_code(a, d) = OK
                     /\ TasksAfterCreate(a, d) = Append(tasks, NewTask(a, d))
          ELSE /\ create_task_code(a, d) = FORBIDDEN
               /\ TasksAfterCreate(a, d) = tasks
    /\ \A a \in Users, t \in TaskIds :
          get_task_code(a, t) =
              IF HasMembership(tasks[t].project_id, a) THEN OK ELSE FORBIDDEN
    /\ \A a \in Users, t \in TaskIds, u \in TaskUpdates, now \in Times :
          IF HasMembership(tasks[t].project_id, a)
          THEN C12_AssigneeOk(tasks[t].project_id, u.assignee_id)
                  => /\ update_task_code(a, t, u) = OK
                     /\ TasksAfterUpdate(a, t, u, now) =
                           [tasks EXCEPT ![t] = ApplyTaskUpdate(@, u, now)]
          ELSE /\ update_task_code(a, t, u) = FORBIDDEN
               /\ TasksAfterUpdate(a, t, u, now) = tasks
    /\ (last.op = "get_task" /\ last.id \in TaskIds)
          => last.code = IF HasMembership(tasks[last.id].project_id, last.actor)
                         THEN OK ELSE FORBIDDEN

\* A viewer has read a task of the project.
C12_Witness ==
    /\ last.op = "get_task"
    /\ last.code = OK
    /\ last.id \in TaskIds
    /\ HasRoleIn(tasks[last.id].project_id, last.actor, {"viewer"})

\* The filter f without its assignee_id, status and parent_task_id parameters.
C13_ProjectFilterOnly(f) ==
    [f EXCEPT !.assignee_id = NULL, !.status = NoneStr, !.parent_task_id = NULL]

\* C13: in every reachable state, for every actor and every combination of
\* filters, get_tasks returns only tasks of projects in which the actor has a
\* ProjectMember row; with a project_id filter it answers Forbidden and returns
\* nothing unless the actor is a member of that project, and returns only that
\* project's tasks; and the assignee, status and parent filters return a
\* subset of what the same request without them returns.
C13_ListingWithinReach ==
    \A a \in Users, f \in TaskFilters :
        /\ get_tasks_code(a, f) =
              IF f.project_id # NULL /\ ~HasMembership(f.project_id, a)
              THEN FORBIDDEN ELSE OK
        /\ get_tasks_code(a, f) = FORBIDDEN => get_tasks_result(a, f) = {}
        /\ \A t \in get_tasks_result(a, f) :
              /\ HasMembership(tasks[t].project_id, a)
              /\ f.project_id # NULL => tasks[t].project_id = f.project_id
        /\ get_tasks_result(a, f) \subseteq get_tasks_result(a, C13_ProjectFilterOnly(f))

\* A user without any membership has listed tasks with no project filter while
\* a project holds a task that is not archived.
C13_Witness ==
    /\ last.op = "get_tasks"
    /\ last.code = OK
    /\ last.id = NULL
    /\ \A m \in members : m.user_id # last.actor
    /\ \E t \in TaskIds : ~tasks[t].is_archived

\* C14: in every reachable state a task that is archived is in no result of
\* get_tasks, whatever the actor and the filters, in no result of get_subtasks
\* and in no result of the calendar query's body, whatever the window; and
\* get_task by its id answers 200 to every member of its project.
C14_ArchivedHiddenFromListings ==
    \A t \in TaskIds :
        tasks[t].is_archived =>
            /\ \A a \in Users, f \in TaskFilters : t \notin get_tasks_result(a, f)
            /\ \A a \in Users, q \in TaskIds : t \notin get_subtasks_result(a, q)
            /\ \A a \in Users, from \in Dates, to \in Dates :
                  t \notin get_calendar_tasks_result(a, from, to)
            /\ \A a \in Users :
                  HasMembership(tasks[t].project_id, a) => get_task_code(a, t) = OK

\* A member has listed the subtasks of a task that has an archived subtask.
C14_Witness ==
    /\ last.op = "get_subtasks"
    /\ last.code = OK
    /\ \E c \in TaskIds : tasks[c].parent_task_id = last.id /\ tasks[c].is_archived

\* C15: in every reachable state every task with a parent_task_id has a stored
\* task of its own project as parent; create_task answers 400 and stores
\* nothing when a member's request names a parent of another project; and no
\* update_task, whatever its body, changes a task's project_id or
\* parent_task_id.
C15_ParentInSameProject ==
    /\ \A t \in TaskIds :
          tasks[t].parent_task_id # NULL
              => /\ tasks[t].parent_task_id \in TaskIds
                 /\ tasks[tasks[t].parent_task_id].project_id = tasks[t].project_id
    /\ \A a \in Users, d \in ParentCreates :
          (/\ HasMembership(d.project_id, a)
           /\ d.parent_task_id \in TaskIds
           /\ tasks[d.parent_task_id].project_id # d.project_id)
              => /\ create_task_code(a, d) = BAD_REQUEST
                 /\ TasksAfterCreate(a, d) = tasks
    /\ \A a \in Users, t \in TaskIds, u \in TaskUpdates, now \in Times :
          /\ TasksAfterUpdate(a, t, u, now)[t].project_id = tasks[t].project_id
          /\ TasksAfterUpdate(a, t, u, now)[t].parent_task_id = tasks[t].parent_task_id

\* A subtask has been updated while a second project holds its own member.
C15_Witness ==
    /\ last.op = "update_task"
    /\ last.code = OK
    /\ last.id \in TaskIds
    /\ tasks[last.id].parent_task_id # NULL
    /\ Len(projects) > 1

\* C16: update_comment answers 200 and applies the body to the comment when
\* the actor is the comment's author, and answers Forbidden and leaves the
\* comment as it was for every other actor, the project's owner and admins
\* included; and a stored comment's content or is_edited differs after a step
\* only if the step answers 200 to an update_comment of its author.
C16_OnlyAuthorEditsComment ==
    /\ [](\A a \in Users, id \in CommentIds, content \in CommentUpdates :
            IF CommentById(id).user_id = a
            THEN /\ update_comment_code(a, id) = OK
                 /\ CommentsAfterUpdate(a, id, content) =
                       (comments \ {CommentById(id)})
                           \cup {ApplyCommentUpdate(CommentById(id), content)}
            ELSE /\ update_comment_code(a, id) = FORBIDDEN
                 /\ CommentsAfterUpdate(a, id, content) = comments)
    /\ [][\A c \in comments, d \in comments' :
            (c.id = d.id /\ (c.content # d.content \/ c.is_edited # d.is_edited))
                => /\ last'.op = "update_comment"
                   /\ last'.code = OK
                   /\ last'.id = c.id
                   /\ last'.actor = c.user_id]_vars

\* An owner or admin who is not the author has tried to edit a comment, which
\* is still as its author wrote it.
C16_Witness ==
    /\ last.op = "update_comment"
    /\ last.code = FORBIDDEN
    /\ last.id \in CommentIds
    /\ HasRoleIn(tasks[CommentById(last.id).task_id].project_id, last.actor,
                 {"owner", "admin"})
    /\ ~CommentById(last.id).is_edited

\* The actor may delete a row of task t written by user author: the actor is
\* that user, or has role owner or admin in the task's project.
C17_MayDelete(a, t, author) ==
    a = author \/ HasRoleIn(tasks[t].project_id, a, {"owner", "admin"})

\* C17: delete_comment and delete_attachment remove the row (200) when the
\* actor is its author or uploader or has role owner or admin in the project
\* of the row's task, and for every other actor do not answer 200 and leave the
\* row in the table; and a row leaves either table only in a step that answers
\* 200 to such an actor's delete request for it.
C17_DeleteByAuthorOrAdmin ==
    /\ [](/\ \A a \in Users, id \in CommentIds :
              IF C17_MayDelete(a, CommentById(id).task_id, CommentById(id).user_id)
              THEN /\ delete_comment_code(a, id) = OK
                   /\ CommentsAfterDelete(a, id) = comments \ {CommentById(id)}
              ELSE /\ delete_comment_code(a, id) # OK
                   /\ CommentsAfterDelete(a, id) = comments
          /\ \A a \in Users, id \in AttachmentIds :
              IF C17_MayDelete(a, AttachmentById(id).task_id, AttachmentById(id).user_id)
              THEN /\ delete_attachment_code(a, id) = OK
                   /\ AttachmentsAfterDelete(a, id) = attachments \ {AttachmentById(id)}
              ELSE /\ delete_attachment_code(a, id) # OK
                   /\ AttachmentsAfterDelete(a, id) = attachments)
    /\ [][/\ \A c \in comments :
              c.id \notin CommentIds'
                  => /\ last' = Response("delete_comment", last'.actor, c.id, OK)
                     /\ C17_MayDelete(last'.actor, c.task_id, c.user_id)
          /\ \A x \in attachments :
              x.id \notin AttachmentIds'
                  => /\ last' = Response("delete_attachment", last'.actor, x.id, OK)
                     /\ C17_MayDelete(last'.actor, x.task_id, x.user_id)]_vars

\* A member with role member has asked to delete another user's comment, and
\* the comment is still there.
C17_Witness ==
    /\ last.op = "delete_comment"
    /\ last.code = FORBIDDEN
    /\ last.id \in CommentIds
    /\ CommentById(last.id).user_id # last.actor
    /\ HasRoleIn(tasks[CommentById(last.id).task_id].project_id, last.actor, {"member"})

\* The actor is the tag's creator, or the tag is a project's and the actor has
\* role owner or admin in that project.
C18_Permitted(a, tag) ==
    \/ tag.created_by = a
    \/ tag.project_id # NULL /\ HasRoleIn(tag.project_id, a, {"owner", "admin"})

\* No other tag of the same project carries the name.
C18_NameFree(tag, name) ==
    \A o \in tags :
        o.id # tag.id => ~(o.name = name /\ o.project_id = tag.project_id
                              /\ tag.project_id # NULL)

\* C18: in every reachable state update_tag and delete_tag answer Forbidden
\* and leave the tags table as it was unless the actor is the tag's creator or,
\* for a tag of a project, has role owner or admin in that project; for such
\* an actor neither answers Forbidden, update_tag renames the tag (200) when
\* the name is free in the tag's project, and delete_tag removes it (200) when
\* no TaskTag row references it.
C18_TagEditByCreatorOrAdmin ==
    \A a \in Users, id \in TagIds :
        IF C18_Permitted(a, TagById(id))
        THEN /\ delete_tag_code(a, id) # FORBIDDEN
             /\ (\A r \in taskTags : r.tag_id # id)
                   => /\ delete_tag_code(a, id) = OK
                      /\ TagsAfterDelete(a, id) = tags \ {TagById(id)}
             /\ \A u \in TagUpdates :
                   /\ update_tag_code(a, id, u) # FORBIDDEN
                   /\ ("name" \in u.set /\ C18_NameFree(TagById(id), u.name))
                         => /\ update_tag_code(a, id, u) = OK
                            /\ TagsAfterUpdate(a, id, u) =
                                  (tags \ {TagById(id)})
                                      \cup {[TagById(id) EXCEPT !.name = u.name]}
        ELSE /\ delete_tag_code(a, id) = FORBIDDEN
             /\ TagsAfterDelete(a, id) = tags
             /\ \A u \in TagUpdates :
                   /\ update_tag_code(a, id, u) = FORBIDDEN
                   /\ TagsAfterUpdate(a, id, u) = tags

\* A project's owner has been refused the deletion of a global tag of another
\* user.
C18_Witness ==
    /\ last.op = "delete_tag"
    /\ last.code = FORBIDDEN
    /\ last.id \in TagIds
    /\ TagById(last.id).project_id = NULL
    /\ \E m \in members : m.user_id = last.actor /\ m.role = "owner"

\* C19: in every reachable state delete_tag removes no tag that a TaskTag row
\* references, whoever asks; a permitted actor's request for such a tag is
\* answered 400 with the number of those rows in its detail; delete_tag
\* removes a tag that none references when a permitted actor asks; and every
\* TaskTag row references a stored tag.
C19_TagInUseNotDeleted ==
    /\ \A r \in taskTags : r.tag_id \in TagIds
    /\ \A a \in Users, id \in TagIds :
          LET N == Cardinality({r \in taskTags : r.tag_id = id})
          IN  /\ N > 0 => /\ TagsAfterDelete(a, id) = tags
                          /\ C18_Permitted(a, TagById(id))
                                => delete_tag_code(a, id) = BAD_REQUEST
              /\ (N = 0 /\ C18_Permitted(a, TagById(id)))
                    => TagsAfterDelete(a, id) = tags \ {TagById(id)}
    /\ (last.op = "delete_tag" /\ last.code = BAD_REQUEST)
          => /\ last.id \in TagIds
             /\ last.detail = Cardinality({r \in taskTags : r.tag_id = last.id})
             /\ last.detail > 0

\* The deletion of a tag that two tasks carry has been refused.
C19_Witness ==
    /\ last.op = "delete_tag"
    /\ last.code = BAD_REQUEST
    /\ last.detail = 2
    /\ last.id \in TagIds

\* C20: mark_all_notifications_read sets is_read on exactly the actor's unread
\* notifications and leaves every other row, every other user's included, as
\* it was; mark_notification_read answers 200 and sets is_read on the named
\* notification alone when it is the actor's, and answers NotFound and changes
\* nothing when it is another user's or missing; and in every reachable state
\* either operation applied twice gives the table that applying it once gives.
C20_MarkReadScopedAndIdempotent ==
    /\ [][/\ last'.op = "mark_all_notifications_read"
              => /\ Len(notifications') = Len(notifications)
                 /\ \A i \in NotificationIds :
                       /\ notifications'[i].user_id = notifications[i].user_id
                       /\ notifications'[i].is_read =
                             (\/ notifications[i].is_read
                              \/ notifications[i].user_id = last'.actor)
          /\ last'.op = "mark_notification_read"
              => /\ last'.code =
                       IF /\ last'.id \in NotificationIds
                          /\ notifications[last'.id].user_id = last'.actor
                       THEN OK ELSE NOT_FOUND
                 /\ Len(notifications') = Len(notifications)
                 /\ \A i \in NotificationIds :
                       /\ notifications'[i].user_id = notifications[i].user_id
                       /\ notifications'[i].is_read =
                             (\/ notifications[i].is_read
                              \/ i = last'.id /\ last'.code = OK)]_vars
    /\ [](\A a \in Users :
            /\ mark_all_notifications_read_table(
                    mark_all_notifications_read_table(notifications, a), a)
                  = mark_all_notifications_read_table(notifications, a)
            /\ \A id \in 1..(MaxNotifications + 1) :
                  mark_notification_read_table(
                      mark_notification_read_table(notifications, a, id), a, id)
                    = mark_notification_read_table(notifications, a, id))

\* A user has marked all notifications read: one of the user's own is read,
\* and another user's is still unread.
C20_Witness ==
    /\ last.op = "mark_all_notifications_read"
    /\ \E i \in NotificationIds :
          notifications[i].user_id = last.actor /\ notifications[i].is_read
    /\ \E i \in NotificationIds :
          notifications[i].user_id # last.actor /\ ~notifications[i].is_read

\* The overlap of a task's dates with the window [from, to] as C21 words it; a
\* null date satisfies no comparison.
C21_Overlaps(task, from, to) ==
    \/ task.start_date # NULL /\ from <= task.start_date /\ task.start_date <= to
    \/ task.due_date # NULL /\ from <= task.due_date /\ task.due_date <= to
    \/ /\ task.start_date # NULL /\ task.due_date # NULL
       /\ task.start_date <= from /\ task.due_date >= to

\* C21: the calendar query for the window [from, to] returns exactly the tasks
\* that are not archived, are in a project the actor has a membership of, and
\* whose dates overlap the window: a task is in the response if and only if
\* its start is in the window, or its due date is, or it spans the window.
C21_CalendarReturnsOverlapping ==
    last.op = "get_calendar_tasks" =>
        \A t \in TaskIds :
            t \in last.detail <=>
                /\ HasMembership(tasks[t].project_id, last.actor)
                /\ ~tasks[t].is_archived
                /\ C21_Overlaps(tasks[t], last.id[1], last.id[2])

\* C22: upload_attachment answers no 200 to a file of more than 10 MiB
\* (10*1024*1024 bytes), and such a request writes no file and inserts no row;
\* it accepts a file of exactly 10 MiB from an actor with access to the task;
\* and every stored attachment row has a file_size of at most 10 MiB.
C22_UploadSizeLimit ==
    /\ [](/\ \A row \in attachments : row.file_size <= 10 * 1024 * 1024
          /\ \A a \in Users, t \in TaskIds, size \in FileSizes :
                /\ size > 10 * 1024 * 1024 => upload_attachment_code(a, t, size) # OK
                /\ (size = 10 * 1024 * 1024 /\ check_task_access_code(t, a) = OK)
                       => upload_attachment_code(a, t, size) = OK)
    /\ [][\A a \in Users, t \in 1..MaxTasks, size \in FileSizes :
             (size > 10 * 1024 * 1024 /\ upload_attachment(a, t, size))
                 => blobs' = blobs /\ attachments' = attachments]_vars

\* A file of exactly 10 MiB is stored, and an upload of a larger one by a
\* member of the task's project has been answered 413.
C22_Witness ==
    /\ \E row \in attachments : row.file_size = 10 * 1024 * 1024 /\ row.filename \in blobs
    /\ last.op = "upload_attachment"
    /\ last.code = TOO_LARGE

\* C23: in every reachable state every task has a status among todo,
\* in_progress, review, done and cancelled and a priority among low, medium,
\* high and urgent, and every project member has a role among owner, admin,
\* member and viewer.
C23_FieldsWithinTheirSets ==
    /\ \A t \in TaskIds :
          /\ tasks[t].status \in {"todo", "in_progress", "review", "done", "cancelled"}
          /\ tasks[t].priority \in {"low", "medium", "high", "urgent"}
    /\ \A m \in members : m.role \in {"owner", "admin", "member", "viewer"}

\* C24: no two User rows share a login_id and none share an email; a register
\* whose login_id or email is taken when it comes to store its row is answered
\* 409 or 400 and inserts no row; an update_current_user whose new email is
\* another user's is refused and changes nothing; and a stored user keeps its
\* login_id in every step.
C24_AccountsUnique ==
    /\ [](\A r1, r2 \in users :
             (r1.login_id = r2.login_id \/ r1.email = r2.email) => r1 = r2)
    /\ [][\A r \in registering :
             (register_commit(r) /\ ExistingUser(r.login_id, r.email))
                 => last'.code \in {BAD_REQUEST, 409} /\ users' = users]_vars
    /\ [][last'.op = "register" /\ last'.code \in {BAD_REQUEST, 409} => users' = users]_vars
    /\ [][\A r \in updating :
             (/\ update_current_user_commit(r)
              /\ r.update.email # NoneStr
              /\ EmailOfAnother(r.actor, r.update.email))
                 => last'.code # OK /\ users' = users]_vars
    /\ [][\A row \in users :
             \E after \in users' : after.id = row.id /\ after.login_id = row.login_id]_vars

\* C25: no request is answered with an unhandled failure where the actor lacks
\* the right to what it asks; in particular delete_comment and delete_attachment
\* answer Forbidden, and leave the row in place, when the actor is neither the
\* row's author or uploader nor a member of the project of the row's task.
C25_DenialIsForbidden ==
    /\ last.code # SERVER_ERROR
    /\ \A a \in Users, id \in CommentIds :
          (/\ CommentById(id).user_id # a
           /\ ~HasMembership(tasks[CommentById(id).task_id].project_id, a))
              => /\ delete_comment_code(a, id) = FORBIDDEN
                 /\ CommentsAfterDelete(a, id) = comments
    /\ \A a \in Users, id \in AttachmentIds :
          (/\ AttachmentById(id).user_id # a
           /\ ~HasMembership(tasks[AttachmentById(id).task_id].project_id, a))
              => /\ delete_attachment_code(a, id) = FORBIDDEN
                 /\ AttachmentsAfterDelete(a, id) = attachments

\* C26: a request that is answered with an error leaves every table and every
\* file as they were before it, so a failed upload_attachment leaves no file
\* behind and a failed delete_attachment leaves the file in place; and in
\* every reachable state every file has its task_attachments row.
C26_FailedRequestChangesNothing ==
    /\ [](\A name \in blobs : \E row \in attachments : row.filename = name)
    /\ [][last'.code \notin {NULL, OK}
             => UNCHANGED <<users, projects, members, tasks, tags, comments,
                            attachments, taskTags, notifications, blobs>>]_vars

\* C27: after any sequence of create_project, add_project_member and
\* update_project requests, every project has exactly one ProjectMember row
\* with role owner, the row of the user of its owner_id; and no step changes
\* a project's owner_id.
C27_ExactlyOneOwner ==
    /\ [](\A p \in ProjectIds :
             (\A r \in pendingProjects : r.project_id # p)
                 => {m \in members : m.project_id = p /\ m.role = "owner"} =
                        {[project_id |-> p, user_id |-> projects[p].owner_id,
                          role |-> "owner"]})
    /\ [][\A p \in ProjectIds : projects'[p].owner_id = projects[p].owner_id]_vars

====
